---------------------------- MODULE Spec2Model ----------------------------
(***************************************************************************)
(* A model of sttyl (src/sttyl.c): a table-driven, single-shot stty clone. *)
(*                                                                         *)
(* Strings are sequences of byte values (0..255), so that strlen, strcmp,  *)
(* option[0] == '-', option++ and printf's %c / %s / %d are computed and   *)
(* not assumed.  A flag word (tcflag_t, 32 bits wide) is the set of the    *)
(* positions of its 1 bits, a subset of 0..31: | is \cup, & is \cap and ~  *)
(* is the complement within 0..31.  A struct termios is a record           *)
(*   [flags : offset -> word, c_cc : 0..NCCS-1 -> byte, c_ospeed : code].  *)
(* Platform values (flag masks, c_cc indexes, _POSIX_VDISABLE, Bxxx codes) *)
(* are those of Linux <termios.h>, the platform of the course test script. *)
(***************************************************************************)
EXTENDS Integers, Sequences, FiniteSets, TLC

VARIABLES
    av,        \* the command-line tokens after the program name (av[1..ac-1])
    argi,      \* index in av of the token the while loop of main looks at next
    dev,       \* the terminal device's live attributes
    ttyinfo,   \* main's local struct termios (the in-memory record)
    pc,        \* position in main: "get_settings", "show_tty", "loop", "exit"
    exitCode,  \* process exit status, -1 while running
    out,       \* stdout: one element per printf call, each a byte sequence
    err,       \* stderr: one record per diagnostic line
    calls,     \* history: the tcgetattr / show_tty / tcsetattr calls, in order
    asRead,    \* history: the record tcgetattr stored, NoRecord if none
    applied    \* history: the record handed to tcsetattr, NoRecord if none

vars == <<av, argi, dev, ttyinfo, pc, exitCode, out, err, calls, asRead, applied>>

---------------------------------------------------------------------------
(* Bounds of the model *)

\* longest token list drawn from CoreTokens
MaxArgs == 3

\* longest token list drawn from AllTokens
MaxShort == 2

---------------------------------------------------------------------------
(* Constants of the program and of the platform *)

CHAR_MASK == 64

\* number of slots of c_cc
NCCS == 32

\* _POSIX_VDISABLE, the "disabled" sentinel of c_cc
POSIX_VDISABLE == 0

\* width of tcflag_t
WordWidth == 32

WordBits == 0 .. (WordWidth - 1)

\* offsetof(struct termios, c_iflag / c_oflag / c_cflag / c_lflag)
Offsets == {0, 4, 8, 12}

NoRecord == [flags |-> [o \in Offsets |-> {}], c_cc |-> <<>>, c_ospeed |-> 0]

\* struct table_t table[]: flag is the set of bits of the mask, mode the
\* offset of the flag word.  The terminating {0, NULL, NULL, 0} entry is
\* the end of the sequence.
table ==
    << [flag |-> {8},  name |-> <<105,99,114,110,108>>,    type |-> <<105,102,108,97,103>>, mode |-> 0],   \* ICRNL  "icrnl"  "iflag"
       [flag |-> {0},  name |-> <<111,112,111,115,116>>,   type |-> <<111,102,108,97,103>>, mode |-> 4],   \* OPOST  "opost"  "oflag"
       [flag |-> {10}, name |-> <<104,117,112,99,108>>,    type |-> <<99,102,108,97,103>>,  mode |-> 8],   \* HUPCL  "hupcl"  "cflag"
       [flag |-> {0},  name |-> <<105,115,105,103>>,       type |-> <<108,102,108,97,103>>, mode |-> 12],  \* ISIG   "isig"   "lflag"
       [flag |-> {1},  name |-> <<105,99,97,110,111,110>>, type |-> <<108,102,108,97,103>>, mode |-> 12],  \* ICANON "icanon" "lflag"
       [flag |-> {3},  name |-> <<101,99,104,111>>,        type |-> <<108,102,108,97,103>>, mode |-> 12],  \* ECHO   "echo"   "lflag"
       [flag |-> {4},  name |-> <<101,99,104,111,101>>,    type |-> <<108,102,108,97,103>>, mode |-> 12],  \* ECHOE  "echoe"  "lflag"
       [flag |-> {5},  name |-> <<101,99,104,111,107>>,    type |-> <<108,102,108,97,103>>, mode |-> 12] >> \* ECHOK "echok"  "lflag"

\* struct ctable_t cchars[]: c_value is the index in c_cc
cchars ==
    << [c_value |-> 4,  c_name |-> <<101,111,102>>],          \* VEOF   "eof"
       [c_value |-> 11, c_name |-> <<101,111,108>>],          \* VEOL   "eol"
       [c_value |-> 2,  c_name |-> <<101,114,97,115,101>>],   \* VERASE "erase"
       [c_value |-> 0,  c_name |-> <<105,110,116,114>>],      \* VINTR  "intr"
       [c_value |-> 3,  c_name |-> <<107,105,108,108>>],      \* VKILL  "kill"
       [c_value |-> 1,  c_name |-> <<113,117,105,116>>],      \* VQUIT  "quit"
       [c_value |-> 10, c_name |-> <<115,117,115,112>>] >>    \* VSUSP  "susp"

---------------------------------------------------------------------------
(* C library functions, computed on bytes *)

strlen(s) == Len(s)

\* strcmp(a, b) == 0
streq(a, b) == a = b

\* s[0] of a NUL-terminated string: the terminator when s is empty
FirstChar(s) == IF Len(s) = 0 THEN 0 ELSE s[1]

\* isascii(c): no bit above the low seven is set
isascii(c) == c < 128

\* iscntrl(c) in the "C" locale (the program never calls setlocale)
iscntrl(c) == c < 32 \/ c = 127

RECURSIVE ByteBits(_, _)
\* the set of bit positions of n, counted from position k
ByteBits(n, k) ==
    IF n = 0 THEN {}
    ELSE (IF n % 2 = 1 THEN {k} ELSE {}) \cup ByteBits(n \div 2, k + 1)

RECURSIVE Pow2(_)
Pow2(k) == IF k = 0 THEN 1 ELSE 2 * Pow2(k - 1)

RECURSIVE BitsValue(_)
\* the number whose 1 bits are at the positions in s
BitsValue(s) ==
    IF s = {} THEN 0
    ELSE LET k == CHOOSE x \in s : TRUE IN Pow2(k) + BitsValue(s \ {k})

\* a ^ b on bytes
ByteXor(a, b) ==
    BitsValue((ByteBits(a, 0) \ ByteBits(b, 0)) \cup (ByteBits(b, 0) \ ByteBits(a, 0)))

RECURSIVE Dec(_)
\* printf's %d of a non-negative int
Dec(n) == IF n < 10 THEN <<48 + n>> ELSE Dec(n \div 10) \o <<48 + (n % 10)>>


---------------------------------------------------------------------------
(* Helper and option-processing functions of sttyl.c *)

ON == 1

OFF == 0

YES == 1

NO == 0

\* the flag word mode_p points at: (tcflag_t *)((char *)info + mode)
ModeWord(info, mode) == info.flags[mode]

\* what a function that may call fatal() hands back: the record it was
\* working on, and the diagnostic when it exited
Returned(info) == [fatal |-> FALSE, info |-> info, diag |-> <<>>]

\* fatal(err, arg): one line "<progname>: <err> `<arg>'" on stderr, exit(1)
fatal(errtext, arg, info) ==
    [fatal |-> TRUE, info |-> info, diag |-> <<[err |-> errtext, arg |-> arg]>>]

RECURSIVE lookupFrom(_, _)
lookupFrom(option, i) ==
    IF i > Len(table) THEN 0
    ELSE IF streq(option, table[i].name) THEN i
    ELSE lookupFrom(option, i + 1)

\* lookup(): the index in table of the first entry named option, 0 for NULL
lookup(option) == lookupFrom(option, 1)

RECURSIVE validCharOptFrom(_, _)
validCharOptFrom(arg, i) ==
    IF i > Len(cchars) THEN 0
    ELSE IF streq(arg, cchars[i].c_name) THEN i
    ELSE validCharOptFrom(arg, i + 1)

\* *c after valid_char_opt(): the index in cchars of the entry named arg,
\* 0 when the function returns NO
valid_char_opt_c(arg) == validCharOptFrom(arg, 1)

\* valid_char_opt(): YES or NO
valid_char_opt(arg) == IF valid_char_opt_c(arg) # 0 THEN YES ELSE NO

\* a faulty change_char: the isascii test is left out
change_char_NoAsciiTest(c, value, info) ==
    IF strlen(value) > 1
    THEN fatal("invalid integer argument", value, info)
    ELSE Returned([info EXCEPT !.c_cc[c.c_value] = FirstChar(value)])

\* a faulty change_char: the slot next to the descriptor's is written
change_char_WrongSlot(c, value, info) ==
    IF strlen(value) > 1 \/ ~isascii(FirstChar(value))
    THEN fatal("invalid integer argument", value, info)
    ELSE Returned([info EXCEPT !.c_cc[c.c_value + 1] = FirstChar(value)])

\* change_char(c, value, info)
change_char(c, value, info) ==
    IF strlen(value) > 1 \/ ~isascii(FirstChar(value))
    THEN fatal("invalid integer argument", value, info)
    ELSE Returned([info EXCEPT !.c_cc[c.c_value] = FirstChar(value)])

\* a faulty turn-off: *mode_p &= flag, the complement forgotten
SetMode_NoComplement(word, flag, status) ==
    IF status = ON THEN word \cup flag
    ELSE word \cap flag

\* a faulty turn-on: *mode_p = flag, the other bits of the word lost
SetMode_Assign(word, flag, status) ==
    IF status = ON THEN flag
    ELSE word \cap (WordBits \ flag)

\* the two assignments of get_option: *mode_p |= flag, *mode_p &= ~flag
SetMode(word, flag, status) ==
    IF status = ON THEN word \cup flag
    ELSE word \cap (WordBits \ flag)

\* a faulty get_option: fatal is given the trimmed option, not the original
get_option_ReportsTrimmed(option, info) ==
    LET dash   == FirstChar(option) = 45
        status == IF dash THEN OFF ELSE ON
        opt    == IF dash THEN Tail(option) ELSE option
        entry  == lookup(opt)
    IN  IF entry = 0
        THEN fatal("illegal argument", opt, info)
        ELSE LET e == table[entry]
             IN  Returned([info EXCEPT
                     !.flags[e.mode] = SetMode(ModeWord(info, e.mode), e.flag, status)])

\* get_option(option, info)
get_option(option, info) ==
    LET dash   == FirstChar(option) = 45
        status == IF dash THEN OFF ELSE ON
        opt    == IF dash THEN Tail(option) ELSE option
        entry  == lookup(opt)
    IN  IF entry = 0
        THEN fatal("illegal argument", option, info)
        ELSE LET e == table[entry]
             IN  Returned([info EXCEPT
                     !.flags[e.mode] = SetMode(ModeWord(info, e.mode), e.flag, status)])

---------------------------------------------------------------------------
(* Display functions *)

\* a faulty entry: iscntrl is tested before _POSIX_VDISABLE
CharsetEntry_CntrlFirst(name, value) ==
    IF iscntrl(value)
    THEN name \o <<32,61,32,94>> \o <<ByteXor(value, CHAR_MASK)>> \o <<59,32>>
    ELSE IF value = POSIX_VDISABLE
    THEN name \o <<32,61,32,60,117,110,100,101,102,62,59,32>>
    ELSE name \o <<32,61,32>> \o <<value>> \o <<59,32>>

\* one printf of show_charset for the value of one control character
CharsetEntry(name, value) ==
    IF value = POSIX_VDISABLE
    THEN name \o <<32,61,32,60,117,110,100,101,102,62,59,32>>         \* "%s = <undef>; "
    ELSE IF iscntrl(value)
    THEN name \o <<32,61,32,94>> \o <<ByteXor(value, CHAR_MASK)>> \o <<59,32>>  \* "%s = ^%c; "
    ELSE name \o <<32,61,32>> \o <<value>> \o <<59,32>>               \* "%s = %c; "

RECURSIVE ShowCharsetFrom(_, _)
ShowCharsetFrom(info, i) ==
    IF i > Len(cchars) THEN <<>>
    ELSE (IF i = 1 THEN << <<99,99,104,97,114,115,58,32>> >> ELSE <<>>)  \* "cchars: "
         \o << CharsetEntry(cchars[i].c_name, info.c_cc[cchars[i].c_value]) >>
         \o ShowCharsetFrom(info, i + 1)

\* show_charset(info): the printf calls it makes
show_charset(info) == ShowCharsetFrom(info, 1)

\* a faulty entry: the offset is ignored and c_lflag is always read
FlagEntry_IgnoresOffset(e, info) ==
    IF (ModeWord(info, 12) \cap e.flag) = e.flag
    THEN e.name \o <<32>>
    ELSE <<45>> \o e.name \o <<32>>

\* one printf of show_flagset for one flag
FlagEntry(e, info) ==
    IF (ModeWord(info, e.mode) \cap e.flag) = e.flag
    THEN e.name \o <<32>>               \* "%s "
    ELSE <<45>> \o e.name \o <<32>>     \* "-%s "

RECURSIVE ShowFlagsetFrom(_, _, _)
\* type is <<>> for NULL and <<t>> for a pointer to the string t
ShowFlagsetFrom(info, i, type) ==
    IF i > Len(table)
    THEN IF i - 1 > 0 THEN << <<10>> >> ELSE <<>>                    \* "\n"
    ELSE LET newtype == type = <<>> \/ ~streq(type[1], table[i].type)
         IN  (IF newtype
              THEN << <<10>> \o table[i].type \o <<115,58,32>> >>    \* "\n%ss: "
              ELSE <<>>)
             \o << FlagEntry(table[i], info) >>
             \o ShowFlagsetFrom(info, i + 1,
                                IF newtype THEN <<table[i].type>> ELSE type)

\* show_flagset(info): the printf calls it makes
show_flagset(info) == ShowFlagsetFrom(info, 1, <<>>)

\* the baud values of getbaud's cases, by speed code B0 (0) .. B38400 (15)
BaudTable ==
    <<0, 50, 75, 110, 134, 150, 200, 300, 600, 1200, 1800, 2400, 4800,
      9600, 19200, 38400>>

\* getbaud(speed): -1 stands for the default case (perror, exit(1))
getbaud(speed) ==
    IF speed \in 0 .. (Len(BaudTable) - 1) THEN BaudTable[speed + 1] ELSE -1

\* the printf calls of show_tty once the size and the speed are known
show_tty(info, w, baud) ==
    << <<115,112,101,101,100,32>> \o Dec(baud) \o <<32,98,97,117,100,59,32>>,  \* "speed %d baud; "
       <<114,111,119,115,32>> \o Dec(w[1]) \o <<59,32>>,                       \* "rows %d; "
       <<99,111,108,115,32>> \o Dec(w[2]) \o <<59,10>> >>                      \* "cols %d;\n"
    \o show_charset(info)
    \o show_flagset(info)


---------------------------------------------------------------------------
(* The inputs: token lists and device states *)

\* tokens of the longer lists
CoreTokens ==
    { <<101,99,104,111>>,           \* "echo"
      <<45,101,99,104,111>>,        \* "-echo"
      <<45,105,99,97,110,111,110>>, \* "-icanon"
      <<101,114,97,115,101>>,       \* "erase"
      <<107,105,108,108>>,          \* "kill"
      <<120>>,                      \* "x"
      <<45>>,                       \* "-"
      <<102,111,111,98,97,114>>,    \* "foobar"
      <<>> }                        \* ""

FlagNames == { table[k].name : k \in 1 .. Len(table) }

CharNames == { cchars[k].c_name : k \in 1 .. Len(cchars) }

\* tokens of the short lists: every flag name bare and negated, every
\* control-character name, value tokens and unknown names
AllTokens ==
    FlagNames \cup { <<45>> \o n : n \in FlagNames } \cup CharNames
    \cup { <<>>,                          \* ""
           <<120>>,                       \* "x"
           <<45>>,                        \* "-"
           <<127>>,                       \* DEL
           <<3>>,                         \* ^C
           <<200>>,                       \* a byte that is not 7-bit ASCII
           <<97,98>>,                     \* "ab"
           <<200,120>>,                   \* two bytes, the first not ASCII
           <<102,111,111,98,97,114>>,     \* "foobar"
           <<45,45,101,99,104,111>>,      \* "--echo"
           <<45,101,114,97,115,101>>,     \* "-erase"
           <<101,99,104>>,                \* "ech"
           <<69,67,72,79>> }              \* "ECHO"

RECURSIVE SeqsUpTo(_, _)
\* the sequences over S of length at most n
SeqsUpTo(S, n) ==
    IF n = 0 THEN { <<>> }
    ELSE LET shorter == SeqsUpTo(S, n - 1)
         IN  shorter \cup { Append(q, t) : q \in shorter, t \in S }

ArgLists == SeqsUpTo(CoreTokens, MaxArgs) \cup SeqsUpTo(AllTokens, MaxShort)

\* c_cc of a terminal with the usual settings: intr ^C, quit ^\, erase DEL,
\* kill ^U, eof ^D, start ^Q, stop ^S, susp ^Z, eol disabled
CcUsual ==
    [k \in 0 .. (NCCS - 1) |->
        CASE k = 0 -> 3 [] k = 1 -> 28 [] k = 2 -> 127 [] k = 3 -> 21
          [] k = 4 -> 4 [] k = 6 -> 1  [] k = 8 -> 17  [] k = 9 -> 19
          [] k = 10 -> 26 [] OTHER -> 0]

\* another c_cc: printable, 8-bit and disabled values in the table's slots
CcOther ==
    [k \in 0 .. (NCCS - 1) |->
        CASE k = 0 -> 105 [] k = 1 -> 0 [] k = 2 -> 120 [] k = 3 -> 200
          [] k = 4 -> 31 [] k = 10 -> 255 [] k = 11 -> 10 [] k = 31 -> 7
          [] OTHER -> 0]

\* the bits of each flag word no entry of table names
OtherBits(o) ==
    WordBits \ UNION { table[k].flag : k \in { j \in 1 .. Len(table) : table[j].mode = o } }

\* the flag words with exactly the flags of the entries in S on, and the
\* bits in rest on besides
FlagsWith(S, rest) ==
    [o \in Offsets |->
        UNION { table[k].flag : k \in { j \in S : table[j].mode = o } }
        \cup (rest \cap OtherBits(o))]

Termios(flags, cc, speed) == [flags |-> flags, c_cc |-> cc, c_ospeed |-> speed]

\* device states the token lists are run against
DevRecords ==
    { Termios(FlagsWith({1, 2, 4, 5, 6, 7, 8}, {2, 9, 11, 13, 15}), CcUsual, 15),
      Termios(FlagsWith({}, WordBits), CcOther, 13),
      Termios(FlagsWith({3, 5}, {}), CcUsual, 0),
      Termios(FlagsWith(1 .. Len(table), WordBits), CcOther, 4097) }

\* byte values stored in a control-character slot of the displayed states
SampleBytes == {0, 1, 26, 31, 32, 63, 64, 65, 126, 127, 128, 191, 255}

\* device states the display is run against
ShowRecords ==
    { Termios(FlagsWith(S, rest), CcUsual, 15) :
        S \in SUBSET (1 .. Len(table)), rest \in {{}, WordBits} }
    \cup { Termios(FlagsWith({4, 5, 6}, {2}), [CcUsual EXCEPT ![cchars[k].c_value] = b], 13) :
        k \in 1 .. Len(cchars), b \in SampleBytes }
    \cup { Termios(FlagsWith({4, 5, 6}, {2}), CcOther, sp) : sp \in 0 .. 16 }

\* struct winsize values TIOCGWINSZ may store: <<ws_row, ws_col>>
WinSizes == { <<24, 80>>, <<0, 0>>, <<50, 132>> }

---------------------------------------------------------------------------
(* main *)

Init ==
    /\ \/ av \in ArgLists /\ dev \in DevRecords
       \/ av = <<>> /\ dev \in ShowRecords
    /\ argi = 1
    /\ ttyinfo = NoRecord
    /\ pc = "get_settings"
    /\ exitCode = -1
    /\ out = <<>>
    /\ err = <<>>
    /\ calls = <<>>
    /\ asRead = NoRecord
    /\ applied = NoRecord

\* exit(1) after one diagnostic line on stderr
Exit1(diag) ==
    /\ err' = err \o diag
    /\ exitCode' = 1
    /\ pc' = "exit"

\* main, lines 106-111: get_settings(&ttyinfo), then the test of ac.
\* tcgetattr either stores the device's attributes or returns -1.
GetSettings ==
    /\ pc = "get_settings"
    /\ calls' = Append(calls, "tcgetattr")
    /\ \E ok \in BOOLEAN :
        IF ok
        THEN /\ ttyinfo' = dev
             /\ asRead' = dev
             /\ pc' = IF Len(av) + 1 = 1 THEN "show_tty" ELSE "loop"
             /\ UNCHANGED <<err, exitCode>>
        ELSE /\ Exit1(<<[err |-> "cannot get tty info for stdin", arg |-> <<>>]>>)
             /\ UNCHANGED <<ttyinfo, asRead>>
    /\ UNCHANGED <<av, argi, dev, out, applied>>

\* a faulty display path: the return after show_tty is missing, and main
\* goes on to the loop
ShowTty_NoReturn ==
    /\ pc = "show_tty"
    /\ calls' = Append(calls, "show_tty")
    /\ \E w \in WinSizes \cup { <<>> } :
        IF w = <<>>
        THEN /\ Exit1(<<[err |-> "could not get window size", arg |-> <<>>]>>)
             /\ out' = out
        ELSE IF getbaud(ttyinfo.c_ospeed) = -1
        THEN /\ Exit1(<<[err |-> "failed to get baud speed", arg |-> <<>>]>>)
             /\ out' = out
        ELSE /\ out' = out \o show_tty(ttyinfo, w, getbaud(ttyinfo.c_ospeed))
             /\ pc' = "loop"
             /\ UNCHANGED <<err, exitCode>>
    /\ UNCHANGED <<av, argi, dev, ttyinfo, asRead, applied>>

\* main, lines 112-113: show_tty(&ttyinfo); return 0.
\* get_term_size and getbaud exit(1) before anything is printed.
ShowTty ==
    /\ pc = "show_tty"
    /\ calls' = Append(calls, "show_tty")
    /\ \E w \in WinSizes \cup { <<>> } :
        IF w = <<>>
        THEN /\ Exit1(<<[err |-> "could not get window size", arg |-> <<>>]>>)
             /\ out' = out
        ELSE IF getbaud(ttyinfo.c_ospeed) = -1
        THEN /\ Exit1(<<[err |-> "failed to get baud speed", arg |-> <<>>]>>)
             /\ out' = out
        ELSE /\ out' = out \o show_tty(ttyinfo, w, getbaud(ttyinfo.c_ospeed))
             /\ exitCode' = 0
             /\ pc' = "exit"
             /\ err' = err
    /\ UNCHANGED <<av, argi, dev, ttyinfo, asRead, applied>>

\* a faulty loop body: the av++ that skips the value is missing
CharOption_NoSkip ==
    /\ pc = "loop"
    /\ argi <= Len(av)
    /\ valid_char_opt(av[argi]) = YES
    /\ argi + 1 <= Len(av)
    /\ LET r == change_char(cchars[valid_char_opt_c(av[argi])], av[argi + 1], ttyinfo)
       IN  IF r.fatal
           THEN /\ Exit1(r.diag)
                /\ UNCHANGED <<ttyinfo, argi>>
           ELSE /\ ttyinfo' = r.info
                /\ argi' = argi + 1
                /\ UNCHANGED <<err, exitCode, pc>>
    /\ UNCHANGED <<av, dev, out, calls, asRead, applied>>

\* main, lines 116-124: the token is a special-char option and a token
\* follows it: change_char(c, av[1], &ttyinfo); av++
CharOption ==
    /\ pc = "loop"
    /\ argi <= Len(av)
    /\ valid_char_opt(av[argi]) = YES
    /\ argi + 1 <= Len(av)
    /\ LET r == change_char(cchars[valid_char_opt_c(av[argi])], av[argi + 1], ttyinfo)
       IN  IF r.fatal
           THEN /\ Exit1(r.diag)
                /\ UNCHANGED <<ttyinfo, argi>>
           ELSE /\ ttyinfo' = r.info
                /\ argi' = argi + 2
                /\ UNCHANGED <<err, exitCode, pc>>
    /\ UNCHANGED <<av, dev, out, calls, asRead, applied>>

\* main, lines 116-120, 125-126: the token is a special-char option and
\* it is the last one: fatal("missing argument to", *av)
MissingArgument ==
    /\ pc = "loop"
    /\ argi <= Len(av)
    /\ valid_char_opt(av[argi]) = YES
    /\ ~(argi + 1 <= Len(av))
    /\ Exit1(fatal("missing argument to", av[argi], ttyinfo).diag)
    /\ UNCHANGED <<av, argi, dev, ttyinfo, out, calls, asRead, applied>>

\* a faulty loop body: fatal prints its line and returns instead of exiting
FlagOption_NoExit ==
    /\ pc = "loop"
    /\ argi <= Len(av)
    /\ valid_char_opt(av[argi]) = NO
    /\ LET r == get_option(av[argi], ttyinfo)
       IN  /\ err' = err \o r.diag
           /\ ttyinfo' = r.info
           /\ argi' = argi + 1
           /\ UNCHANGED <<exitCode, pc>>
    /\ UNCHANGED <<av, dev, out, calls, asRead, applied>>

\* main, lines 116-118, 128-129: any other token: get_option(*av, &ttyinfo)
FlagOption ==
    /\ pc = "loop"
    /\ argi <= Len(av)
    /\ valid_char_opt(av[argi]) = NO
    /\ LET r == get_option(av[argi], ttyinfo)
       IN  IF r.fatal
           THEN /\ Exit1(r.diag)
                /\ UNCHANGED <<ttyinfo, argi>>
           ELSE /\ ttyinfo' = r.info
                /\ argi' = argi + 1
                /\ UNCHANGED <<err, exitCode, pc>>
    /\ UNCHANGED <<av, dev, out, calls, asRead, applied>>

\* main, line 132: the loop has ended: return set_settings(&ttyinfo).
\* tcsetattr either sets the device's attributes or returns -1.
SetSettings ==
    /\ pc = "loop"
    /\ ~(argi <= Len(av))
    /\ calls' = Append(calls, "tcsetattr")
    /\ applied' = ttyinfo
    /\ \E ok \in BOOLEAN :
        IF ok
        THEN /\ dev' = ttyinfo
             /\ exitCode' = 0
             /\ pc' = "exit"
             /\ err' = err
        ELSE /\ Exit1(<<[err |-> "Setting attributes", arg |-> <<>>]>>)
             /\ dev' = dev
    /\ UNCHANGED <<av, argi, ttyinfo, out, asRead>>

Next ==
    \/ GetSettings
    \/ ShowTty
    \/ CharOption
    \/ MissingArgument
    \/ FlagOption
    \/ SetSettings

Spec == Init /\ [][Next]_vars

TypeOK ==
    /\ pc \in {"get_settings", "show_tty", "loop", "exit"}
    /\ exitCode \in {-1, 0, 1}
    /\ argi \in 1 .. (Len(av) + 1)
    /\ \A o \in Offsets : ttyinfo.flags[o] \subseteq WordBits

---------------------------------------------------------------------------
(* Vocabulary of the properties *)

TokenErrors == {"illegal argument", "missing argument to", "invalid integer argument"}

\* processing some token has failed
TokenFailed == \E k \in 1 .. Len(err) : err[k].err \in TokenErrors

Called(name) == \E k \in 1 .. Len(calls) : calls[k] = name

TimesCalled(name) == Cardinality({ k \in 1 .. Len(calls) : calls[k] = name })

\* the c_cc index of the control character named name
CcIndexOf(name) ==
    (CHOOSE e \in { cchars[k] : k \in 1 .. Len(cchars) } : e.c_name = name).c_value

\* the token without one leading '-'
Stripped(t) == IF Len(t) > 0 /\ t[1] = 45 THEN Tail(t) ELSE t

\* main is about to process a control-character directive that has a value
AtCharDirective ==
    /\ pc = "loop"
    /\ argi < Len(av)
    /\ av[argi] \in CharNames

InvalidCharDiag(v) == [err |-> "invalid integer argument", arg |-> v]

---------------------------------------------------------------------------
(* C1 *)

\* C1: once processing some token has failed (illegal option, missing
\* argument or invalid character argument), the run has ended with exit
\* code 1, tcsetattr has not been called, and the device's attributes are
\* those read at startup, however many tokens were applied in memory.
C1_FailureNeverApplies ==
    TokenFailed =>
        /\ pc = "exit"
        /\ exitCode = 1
        /\ ~Called("tcsetattr")
        /\ applied = NoRecord
        /\ dev = asRead

\* a failure after an earlier token has changed the in-memory record
C1_Witness ==
    /\ TokenFailed
    /\ argi > 1
    /\ ttyinfo # asRead
    /\ dev = asRead
    /\ exitCode = 1

---------------------------------------------------------------------------
(* C2 *)

\* C2 as stated: change_char fails with InvalidCharArgument for every value
\* token that is not exactly one character long or whose character is not
\* 7-bit ASCII, leaving c_cc unchanged; for every other value token it
\* writes the character into the slot at the descriptor's index.
C2_AsStated ==
    [][AtCharDirective =>
        LET v == av[argi + 1]
        IN  IF Len(v) # 1 \/ v[1] >= 128
            THEN /\ err' = Append(err, InvalidCharDiag(v))
                 /\ exitCode' = 1
                 /\ ttyinfo'.c_cc = ttyinfo.c_cc
            ELSE /\ err' = err
                 /\ ttyinfo'.c_cc[CcIndexOf(av[argi])] = v[1]]_vars

\* C2 amended: change_char fails with InvalidCharArgument for every value
\* token of two or more characters and for every one-character token whose
\* character is not 7-bit ASCII, leaving c_cc unchanged; a one-character
\* ASCII token is written into the slot at the descriptor's index; the
\* empty token is accepted and writes the NUL byte into that slot.
C2_Amended ==
    [][AtCharDirective =>
        LET v == av[argi + 1]
        IN  IF Len(v) >= 2 \/ (Len(v) = 1 /\ v[1] >= 128)
            THEN /\ err' = Append(err, InvalidCharDiag(v))
                 /\ exitCode' = 1
                 /\ ttyinfo'.c_cc = ttyinfo.c_cc
            ELSE /\ err' = err
                 /\ exitCode' = exitCode
                 /\ ttyinfo'.c_cc[CcIndexOf(av[argi])] = (IF Len(v) = 0 THEN 0 ELSE v[1])]_vars

\* "erase" followed by the empty token has been accepted: the slot that
\* held DEL now holds NUL
C2_Witness ==
    /\ Len(av) >= 2
    /\ av[1] = <<101,114,97,115,101>>
    /\ av[2] = <<>>
    /\ argi = 3
    /\ err = <<>>
    /\ asRead.c_cc[2] = 127
    /\ ttyinfo.c_cc[2] = 0

---------------------------------------------------------------------------
(* C3 *)

\* the two tokens were "F" and "-F" for the table entry k, and both have
\* been processed
OnThenOffDone(k) ==
    /\ Len(av) >= 2
    /\ av[1] = table[k].name
    /\ av[2] = <<45>> \o table[k].name
    /\ argi = 3

\* C3 as stated: turning a flag on and then off leaves the flag word at
\* its offset equal to its value before either call, whether the flag was
\* on or off to begin with.
C3_AsStated ==
    \A k \in 1 .. Len(table) :
        OnThenOffDone(k) =>
            ttyinfo.flags[table[k].mode] = asRead.flags[table[k].mode]

\* C3 amended: turning a flag on and then off leaves the flag word at its
\* offset equal to its value before either call with the bits of the mask
\* cleared; it equals the value before either call exactly when the flag's
\* mask bits were all off to begin with.  The other flag words are unchanged.
C3_Amended ==
    \A k \in 1 .. Len(table) :
        OnThenOffDone(k) =>
            /\ ttyinfo.flags[table[k].mode] = asRead.flags[table[k].mode] \ table[k].flag
            /\ (ttyinfo.flags[table[k].mode] = asRead.flags[table[k].mode]
                    <=> asRead.flags[table[k].mode] \cap table[k].flag = {})
            /\ \A o \in Offsets \ {table[k].mode} : ttyinfo.flags[o] = asRead.flags[o]

\* echo was on, "echo -echo" has been processed and echo is off
C3_Witness ==
    /\ OnThenOffDone(6)
    /\ 3 \in asRead.flags[12]
    /\ 3 \notin ttyinfo.flags[12]
    /\ 1 \in ttyinfo.flags[12]

---------------------------------------------------------------------------
(* C4 *)

\* C4: setting a control character to a single 7-bit ASCII byte v stores v
\* in the slot at the descriptor's index and changes no other slot of c_cc
\* and no flag word.
C4_SetCharFrame ==
    [][(AtCharDirective /\ Len(av[argi + 1]) = 1 /\ av[argi + 1][1] < 128) =>
        LET idx == CcIndexOf(av[argi])
        IN  /\ ttyinfo'.c_cc[idx] = av[argi + 1][1]
            /\ \A j \in 0 .. (NCCS - 1) : j # idx => ttyinfo'.c_cc[j] = ttyinfo.c_cc[j]
            /\ ttyinfo'.flags = ttyinfo.flags]_vars

\* "kill x" has been processed: slot VKILL holds 'x', it held something else
C4_Witness ==
    /\ Len(av) >= 2
    /\ av[1] = <<107,105,108,108>>
    /\ av[2] = <<120>>
    /\ argi = 3
    /\ ttyinfo.c_cc[3] = 120
    /\ asRead.c_cc[3] # 120
    /\ ttyinfo.flags = asRead.flags

---------------------------------------------------------------------------
(* C5 *)

\* C5: when the current token T is a control-character name: if no token
\* follows it the run fails with the missing-argument diagnostic naming T;
\* otherwise the following token is consumed as T's value and never as a
\* directive (no flag word changes, no illegal-option diagnostic, only T's
\* slot may change), and processing resumes two tokens further on.
C5_CharDirectiveTakesTwo ==
    [][(pc = "loop" /\ argi <= Len(av) /\ av[argi] \in CharNames) =>
        IF argi = Len(av)
        THEN /\ err' = Append(err, [err |-> "missing argument to", arg |-> av[argi]])
             /\ exitCode' = 1
             /\ pc' = "exit"
             /\ ttyinfo' = ttyinfo
        ELSE LET v   == av[argi + 1]
                 idx == CcIndexOf(av[argi])
             IN  /\ ttyinfo'.flags = ttyinfo.flags
                 /\ \A j \in 0 .. (NCCS - 1) : j # idx => ttyinfo'.c_cc[j] = ttyinfo.c_cc[j]
                 /\ \/ /\ pc' = "loop"
                       /\ argi' = argi + 2
                       /\ err' = err
                       /\ ttyinfo'.c_cc[idx] = (IF Len(v) = 0 THEN 0 ELSE v[1])
                    \/ /\ pc' = "exit"
                       /\ exitCode' = 1
                       /\ err' = Append(err, InvalidCharDiag(v))
                       /\ ttyinfo' = ttyinfo]_vars

\* "erase - <token>": '-' was taken as the value of erase, not as a
\* directive, and the token after it has been processed as the next one
C5_Witness ==
    /\ Len(av) = 3
    /\ av[1] = <<101,114,97,115,101>>
    /\ av[2] = <<45>>
    /\ argi = 4
    /\ pc = "loop"
    /\ err = <<>>
    /\ ttyinfo.c_cc[2] = 45

---------------------------------------------------------------------------
(* C6 *)

RECURSIVE FirstFailing(_, _)
\* the position of the leftmost token of the list whose processing fails
\* when the directives are taken left to right from position p, 0 if none
FirstFailing(tokens, p) ==
    IF p > Len(tokens) THEN 0
    ELSE IF tokens[p] \in CharNames
    THEN IF p = Len(tokens) THEN p
         ELSE IF Len(tokens[p + 1]) >= 2
                 \/ (Len(tokens[p + 1]) = 1 /\ tokens[p + 1][1] >= 128) THEN p
         ELSE FirstFailing(tokens, p + 2)
    ELSE IF Stripped(tokens[p]) \in FlagNames THEN FirstFailing(tokens, p + 1)
    ELSE p

\* C6: for a token T that is not a control-character name, one leading '-'
\* is stripped and the remainder is looked up by exact match among the flag
\* names; when it is not found the run fails with the illegal-argument
\* diagnostic naming T itself, '-' included; the diagnostic names the
\* leftmost failing token and there is never more than one diagnostic.
C6_IllegalOptionNamesToken ==
    /\ [][(pc = "loop" /\ argi <= Len(av) /\ av[argi] \notin CharNames) =>
            IF Stripped(av[argi]) \in FlagNames
            THEN /\ err' = err
                 /\ pc' = "loop"
                 /\ argi' = argi + 1
            ELSE /\ err' = Append(err, [err |-> "illegal argument", arg |-> av[argi]])
                 /\ exitCode' = 1
                 /\ pc' = "exit"]_vars
    /\ [](/\ Len(err) <= 1
          /\ \A k \in 1 .. Len(err) :
                err[k].err = "illegal argument" =>
                    /\ argi = FirstFailing(av, 1)
                    /\ err[k].arg = av[argi])

\* "--echo" then "foobar": the one diagnostic names "--echo", dashes kept
C6_Witness ==
    /\ av = << <<45,45,101,99,104,111>>, <<102,111,111,98,97,114>> >>
    /\ pc = "exit"
    /\ err = << [err |-> "illegal argument", arg |-> <<45,45,101,99,104,111>>] >>
    /\ exitCode = 1

---------------------------------------------------------------------------
(* C7 *)

\* the parts of C7 no failure of a system call bears on: tcgetattr is
\* called exactly once and first, before any token is processed; tcsetattr
\* is called at most once, as the last action; show_tty and tcsetattr are
\* never both called; with no token tcsetattr is never called
C7_CallOrder ==
    /\ pc = "get_settings" => (calls = <<>> /\ argi = 1 /\ ttyinfo = NoRecord)
    /\ pc # "get_settings" => (calls[1] = "tcgetattr" /\ TimesCalled("tcgetattr") = 1)
    /\ TimesCalled("tcsetattr") <= 1
    /\ Called("tcsetattr") => (calls[Len(calls)] = "tcsetattr" /\ pc = "exit")
    /\ ~(Called("show_tty") /\ Called("tcsetattr"))
    /\ av = <<>> => ~Called("tcsetattr")

\* C7 as stated: in every run the device is read once, before any token,
\* and written at most once, last; with no token the run ends by rendering
\* the record as read, without apply, exit code 0; with tokens that are all
\* processed without failure apply is invoked exactly once, after the last
\* token, exit code 0; render and apply never both occur.
C7_AsStated ==
    /\ C7_CallOrder
    /\ (pc = "exit" /\ av = <<>>) =>
            /\ calls = <<"tcgetattr", "show_tty">>
            /\ out # <<>>
            /\ ttyinfo = asRead
            /\ exitCode = 0
    /\ (pc = "exit" /\ av # <<>> /\ ~TokenFailed) =>
            /\ calls = <<"tcgetattr", "tcsetattr">>
            /\ argi = Len(av) + 1
            /\ exitCode = 0

\* C7 amended: as stated, except that the exit code is 0 only when the
\* system calls succeed: when tcgetattr fails the run ends at once with exit
\* code 1 and neither renders nor applies; with no token, the record as read
\* is rendered with exit code 0 when the window size and the line speed are
\* obtained, and otherwise nothing is printed and the exit code is 1; with
\* tokens all processed without failure, apply is invoked exactly once after
\* the last token, and the exit code is 0 when tcsetattr succeeds and 1 when
\* it fails.
C7_Amended ==
    /\ C7_CallOrder
    /\ (pc = "exit" /\ asRead = NoRecord) =>
            /\ calls = <<"tcgetattr">>
            /\ exitCode = 1
            /\ out = <<>>
    /\ (pc = "exit" /\ asRead # NoRecord /\ av = <<>>) =>
            /\ calls = <<"tcgetattr", "show_tty">>
            /\ ttyinfo = asRead
            /\ \/ exitCode = 0 /\ out # <<>> /\ err = <<>>
               \/ exitCode = 1 /\ out = <<>> /\ Len(err) = 1
    /\ (pc = "exit" /\ asRead # NoRecord /\ av # <<>> /\ ~TokenFailed) =>
            /\ calls = <<"tcgetattr", "tcsetattr">>
            /\ argi = Len(av) + 1
            /\ applied = ttyinfo
            /\ \/ exitCode = 0 /\ dev = applied /\ err = <<>>
               \/ exitCode = 1 /\ dev = asRead /\ Len(err) = 1

\* a run with three tokens has applied its record and ended with 0
C7_Witness ==
    /\ pc = "exit"
    /\ Len(av) = 3
    /\ calls = <<"tcgetattr", "tcsetattr">>
    /\ exitCode = 0
    /\ dev = ttyinfo
    /\ dev # asRead

---------------------------------------------------------------------------
(* C8 *)

RECURSIVE DirectiveStarts(_, _)
\* the positions at which a directive of the list starts, from position p:
\* a control-character name takes the token after it with it
DirectiveStarts(tokens, p) ==
    IF p > Len(tokens) THEN {}
    ELSE {p} \cup DirectiveStarts(tokens, IF tokens[p] \in CharNames THEN p + 2 ELSE p + 1)

\* the greatest element of a non-empty set of positions
Last(S) == CHOOSE p \in S : \A q \in S : q <= p

---------------------------------------------------------------------------
(* C9 *)

\* show_tty has printed
Rendered == pc = "exit" /\ out # <<>>

\* the names of the control characters in the order of cchars
CharNamesInOrder ==
    << <<101,111,102>>, <<101,111,108>>, <<101,114,97,115,101>>, <<105,110,116,114>>,
       <<107,105,108,108>>, <<113,117,105,116>>, <<115,117,115,112>> >>

\* the rendering of a stored byte: "<undef>" for the disabled sentinel,
\* else '^' and the byte XOR 64 for a control character, else the byte
Rendering(b) ==
    IF b = POSIX_VDISABLE THEN <<60,117,110,100,101,102,62>>
    ELSE IF b < 32 THEN <<94, b + 64>>
    ELSE IF b = 127 THEN <<94, 63>>
    ELSE <<b>>

\* C9: after the three pieces of the first line, render prints the header
\* "cchars: " once and then one entry "<name> = <rendering>; " for each
\* control character, in the order eof, eol, erase, intr, kill, quit, susp,
\* of the byte stored at that character's index.
C9_CharsetRendering ==
    Rendered =>
        /\ out[4] = <<99,99,104,97,114,115,58,32>>
        /\ Cardinality({ p \in 1 .. Len(out) : out[p] = <<99,99,104,97,114,115,58,32>> }) = 1
        /\ \A k \in 1 .. Len(CharNamesInOrder) :
            out[4 + k] = CharNamesInOrder[k] \o <<32,61,32>>
                         \o Rendering(asRead.c_cc[CcIndexOf(CharNamesInOrder[k])])
                         \o <<59,32>>

\* erase is DEL and is printed as "erase = ^?; ", eol is disabled and is
\* printed as "eol = <undef>; "
C9_Witness ==
    /\ Rendered
    /\ asRead.c_cc[2] = 127
    /\ out[7] = <<101,114,97,115,101,32,61,32,94,63,59,32>>
    /\ asRead.c_cc[11] = 0
    /\ out[6] = <<101,111,108,32,61,32,60,117,110,100,101,102,62,59,32>>

---------------------------------------------------------------------------
(* C10 *)

\* the printf calls of the flag section: all after the control characters
FlagSection == SubSeq(out, 5 + Len(CharNamesInOrder), Len(out))

\* the header of a group: "\n<type>s: "
GroupHeader(type) == <<10>> \o type \o <<115,58,32>>

GroupTypes == { table[k].type : k \in 1 .. Len(table) }

\* where the entry of flag k is in the flag section: after the entries of
\* the flags before it and the headers of the groups up to its own
EntryPosition(k) == k + Cardinality({ table[j].type : j \in 1 .. k })

\* C10: the flag section lists every flag of the table exactly once, in
\* table order, bare when (word at its offset AND mask) = mask and with a
\* leading '-' otherwise; each header "<group>s: " is printed exactly once,
\* immediately before the first flag of its group; a newline ends the section.
C10_FlagRendering ==
    Rendered =>
        LET sec == FlagSection
        IN  /\ Len(sec) = Len(table) + Cardinality(GroupTypes) + 1
            /\ \A k \in 1 .. Len(table) :
                LET e  == table[k]
                    on == asRead.flags[e.mode] \cap e.flag = e.flag
                IN  /\ sec[EntryPosition(k)] =
                            (IF on THEN e.name ELSE <<45>> \o e.name) \o <<32>>
                    /\ (\A j \in 1 .. (k - 1) : table[j].type # e.type) =>
                            sec[EntryPosition(k) - 1] = GroupHeader(e.type)
            /\ \A t \in GroupTypes :
                Cardinality({ p \in 1 .. Len(sec) : sec[p] = GroupHeader(t) }) = 1
            /\ sec[Len(sec)] = <<10>>

\* echo on and icanon off: the local group reads
\* "lflags: isig -icanon echo ..."
C10_Witness ==
    /\ Rendered
    /\ 3 \in asRead.flags[12]
    /\ 1 \notin asRead.flags[12]
    /\ 0 \in asRead.flags[12]
    /\ FlagSection[7] = <<10,108,102,108,97,103,115,58,32>>
    /\ FlagSection[8] = <<105,115,105,103,32>>
    /\ FlagSection[9] = <<45,105,99,97,110,111,110,32>>
    /\ FlagSection[10] = <<101,99,104,111,32>>

=============================================================================
